---- MODULE Spec2Model ----
(***************************************************************************)
(* The useTranslations hook (src/src/hooks/useTranslations.ts): the        *)
(* catalog, its Original Snapshot, the list of unsaved changes, and the    *)
(* operations the hook returns.                                            *)
(*                                                                         *)
(* Representation.  A JavaScript object is the sequence of its entries     *)
(* [k, v] in insertion order.  A value is a record [t, s, o]: a string     *)
(* (t = "str", text s), an object (t = "obj", entries o) or undefined      *)
(* (t = "undef").  A key path is the sequence of its segments, i.e. the    *)
(* result of keyPath.split('.'); segment names hold no '.'.  null is the   *)
(* record Null.                                                            *)
(***************************************************************************)
EXTENDS Integers, Sequences, FiniteSets, TLC

VARIABLES
    data,            \* useState<TranslationData | null>
    originalData,    \* useState<TranslationData | null>: the Original Snapshot
    unsavedChanges,  \* useState<UnsavedChange[]>
    loading,         \* useState(true)
    error,           \* useState<string | null>
    saves,           \* saveChanges calls awaiting their API call, oldest first
    fetches,         \* number of fetchTranslations calls awaiting their API call
    ops,             \* number of calls made so far (bounded by MaxOps)
    last             \* the last call or completion: its arguments, outcome and the
                     \* state it started from

vars == <<data, originalData, unsavedChanges, loading, error, saves, fetches, ops, last>>

-----------------------------------------------------------------------------
(* Bounds *)

MaxOps == 3

MaxInFlight == 2

-----------------------------------------------------------------------------
(* JavaScript values *)

Undef == [t |-> "undef", s |-> "", o |-> <<>>]

Str(s) == [t |-> "str", s |-> s, o |-> <<>>]

Obj(o) == [t |-> "obj", s |-> "", o |-> o]

Entry(k, v) == [k |-> k, v |-> v]

Null == [null |-> TRUE]

Catalog(p, ls, tr) == [null |-> FALSE, project |-> p, languages |-> ls, translations |-> tr]

\* Object.keys(o)
Keys(o) == [i \in 1..Len(o) |-> o[i].k]

Has(o, k) == \E i \in 1..Len(o) : o[i].k = k

\* o[k] on an object
Get(o, k) == IF Has(o, k) THEN o[CHOOSE i \in 1..Len(o) : o[i].k = k].v ELSE Undef

\* o[k] = v: an existing key keeps its position, a new key goes last
Put(o, k, v) ==
    IF Has(o, k)
    THEN [i \in 1..Len(o) |-> IF o[i].k = k THEN Entry(k, v) ELSE o[i]]
    ELSE Append(o, Entry(k, v))

\* delete o[k]
Del(o, k) == SelectSeq(o, LAMBDA e : e.k # k)

\* x[k] for a value x that is not undefined: a string has none of the keys used here
Prop(x, k) == IF x.t = "obj" THEN Get(x.o, k) ELSE Undef

\* truthiness of a value
Truthy(x) == x.t = "obj" \/ (x.t = "str" /\ x.s # "")

\* array.includes(x)
Includes(arr, x) == \E i \in 1..Len(arr) : arr[i] = x

\* A thrown TypeError, as the result of a navigation
Thrown == [t |-> "throw", s |-> "", o |-> <<>>]

\* for (i = from; i <= upto; i++) cur = cur[keys[i]]: reading a property of
\* undefined throws
RECURSIVE Walk(_, _, _, _)
Walk(cur, keys, from, upto) ==
    IF from > upto THEN cur
    ELSE IF cur.t = "undef" THEN Thrown
    ELSE Walk(Prop(cur, keys[from]), keys, from + 1, upto)

\* An undefined value at or below an entry of o
RECURSIVE HasUndefined(_)
HasUndefined(o) ==
    \E i \in 1..Len(o) :
        \/ o[i].v.t = "undef"
        \/ o[i].v.t = "obj" /\ HasUndefined(o[i].v.o)

\* JSON.parse(JSON.stringify(o)) of an object: entries in order, undefined
\* dropped; an object that holds none is its own copy
RECURSIVE CloneObj(_)
CloneObj(o) ==
    IF ~HasUndefined(o) THEN o
    ELSE LET e == Head(o)
             rest == CloneObj(Tail(o))
         IN  IF e.v.t = "undef" THEN rest
             ELSE IF e.v.t = "obj" THEN <<Entry(e.k, Obj(CloneObj(e.v.o)))>> \o rest
             ELSE <<e>> \o rest

JsonClone(d) == Catalog(d.project, d.languages, CloneObj(d.translations))

\* A leaf of the mock catalog: its en and de values
Leaf(en, de) == Obj(<< Entry("en", Str(en)), Entry("de", Str(de)) >>)

\* The mock catalog the load returns, reduced: namespace "a" with one leaf (one
\* de value missing), namespace "n" with a leaf and a nested namespace of two
\* leaves, and the top-level leaf "w"
mockData ==
    Catalog("p", <<"en", "de">>,
        << Entry("a", Obj(<< Entry("t", Leaf("x", "")) >>)),
           Entry("n", Obj(<< Entry("u", Leaf("x", "x")),
                             Entry("s", Obj(<< Entry("v", Leaf("x", "")),
                                               Entry("y", Leaf("x", "")) >>)) >>)),
           Entry("w", Leaf("x", "x")) >>)

-----------------------------------------------------------------------------
(* Node classification *)

\* keys.some(k => data.languages.includes(k))
isLeaf(o, languages) == \E i \in 1..Len(o) : Includes(languages, o[i].k)

-----------------------------------------------------------------------------
(* updateTranslation *)

\* current[lastKey][language] = value, at the end of a path of objects
RECURSIVE WriteAt(_, _, _, _)
WriteAt(o, keys, language, value) ==
    LET k == Head(keys)
        child == Get(o, k).o
    IN  IF Len(keys) = 1
        THEN Put(o, k, Obj(Put(child, language, Str(value))))
        ELSE Put(o, k, Obj(WriteAt(child, Tail(keys), language, value)))

\* prev.findIndex(c => c.keyPath === keyPath && c.language === language),
\* counted from 1, with 0 for "not found"
FindIndex(prev, keyPath, language) ==
    LET hits == {i \in 1..Len(prev) : prev[i].keyPath = keyPath /\ prev[i].language = language}
    IN  IF hits = {} THEN 0 ELSE CHOOSE i \in hits : \A j \in hits : i <= j

\* prev.filter((_, i) => i !== existing)
RemoveAt(prev, existing) ==
    [i \in 1..(Len(prev) - (IF existing \in 1..Len(prev) THEN 1 ELSE 0)) |->
        IF existing = 0 \/ i < existing THEN prev[i] ELSE prev[i + 1]]

Change(keyPath, language, originalValue, newValue) ==
    [keyPath |-> keyPath, language |-> language,
     originalValue |-> originalValue, newValue |-> newValue]

\* The updater passed to setUnsavedChanges
TrackChange(prev, keyPath, language, value, originalValue) ==
    LET existing == FindIndex(prev, keyPath, language)
        change == Change(keyPath, language, originalValue, Str(value))
    IN  IF Str(value) = originalValue THEN RemoveAt(prev, existing)
        ELSE IF existing >= 1 THEN [prev EXCEPT ![existing] = change]
        ELSE Append(prev, change)

\* originalCurrent[lastKey]?.[language] || ''
OriginalValue(originalCurrent, lastKey, language) ==
    LET node == Prop(originalCurrent, lastKey)
        v == IF node.t = "undef" THEN Undef ELSE Prop(node, language)
    IN  IF Truthy(v) THEN v ELSE Str("")

\* The body of updateTranslation on a loaded catalog: what it throws, and what
\* it hands to setData and setUnsavedChanges
updateTranslation(d, od, prev, keyPath, language, value) ==
    LET keys == keyPath
        n == Len(keys)
        lastKey == keys[n]
        newData == JsonClone(d)
        current == Walk(Obj(newData.translations), keys, 1, n - 1)
        target == IF current.t \in {"throw", "undef"} THEN Undef ELSE Prop(current, lastKey)
        originalCurrent == Walk(Obj(od.translations), keys, 1, n - 1)
        threw == \/ current.t \in {"throw", "undef"}
                 \/ (target.t = "str" /\ Truthy(target))
                 \/ originalCurrent.t \in {"throw", "undef"}
    IN  IF threw
        THEN [threw |-> TRUE, data |-> d, unsavedChanges |-> prev]
        ELSE [threw |-> FALSE,
              data |-> IF Truthy(target)
                       THEN [newData EXCEPT !.translations = WriteAt(@, keys, language, value)]
                       ELSE newData,
              unsavedChanges |-> TrackChange(prev, keyPath, language, value,
                                    OriginalValue(originalCurrent, lastKey, language))]

-----------------------------------------------------------------------------
(* renameKey *)

\* RenameAt without "delete parent[oldKey]"
RECURSIVE RenameAt_keepsOld(_, _, _)
RenameAt_keepsOld(o, keys, newKeyName) ==
    LET k == Head(keys)
    IN  IF Len(keys) = 1
        THEN Put(o, newKeyName, Get(o, k))
        ELSE Put(o, k, Obj(RenameAt_keepsOld(Get(o, k).o, Tail(keys), newKeyName)))

\* parent[newKeyName] = parent[oldKey]; delete parent[oldKey], at the end of a
\* path of objects
RECURSIVE RenameAt(_, _, _)
RenameAt(o, keys, newKeyName) ==
    LET k == Head(keys)
    IN  IF Len(keys) = 1
        THEN Del(Put(o, newKeyName, Get(o, k)), k)
        ELSE Put(o, k, Obj(RenameAt(Get(o, k).o, Tail(keys), newKeyName)))

RenameSentinel == "__key_rename__"

\* renameKey that leaves the tree alone when the parent already has a key of
\* the new name
renameKey_unique(d, prev, oldPath, newKeyName) ==
    LET keys == oldPath
        n == Len(keys)
        oldKey == keys[n]
        newData == JsonClone(d)
        parent == Walk(Obj(newData.translations), keys, 1, n - 1)
        threw == parent.t \in {"throw", "undef"}
        node == IF threw THEN Undef ELSE Prop(parent, oldKey)
    IN  IF threw
        THEN [threw |-> TRUE, data |-> d, unsavedChanges |-> prev]
        ELSE [threw |-> FALSE,
              data |-> IF node.t # "undef" /\ Prop(parent, newKeyName).t = "undef"
                       THEN [newData EXCEPT !.translations = RenameAt(@, keys, newKeyName)]
                       ELSE newData,
              unsavedChanges |-> Append(prev,
                  Change(oldPath, RenameSentinel, Str(oldKey), Str(newKeyName)))]

renameKey(d, prev, oldPath, newKeyName) ==
    LET keys == oldPath
        n == Len(keys)
        oldKey == keys[n]
        newData == JsonClone(d)
        parent == Walk(Obj(newData.translations), keys, 1, n - 1)
        threw == parent.t \in {"throw", "undef"}
        node == IF threw THEN Undef ELSE Prop(parent, oldKey)
    IN  IF threw
        THEN [threw |-> TRUE, data |-> d, unsavedChanges |-> prev]
        ELSE [threw |-> FALSE,
              data |-> IF node.t # "undef"
                       THEN [newData EXCEPT !.translations = RenameAt(@, keys, newKeyName)]
                       ELSE newData,
              unsavedChanges |-> Append(prev,
                  Change(oldPath, RenameSentinel, Str(oldKey), Str(newKeyName)))]

-----------------------------------------------------------------------------
(* addLanguage, removeLanguage *)

RECURSIVE addLanguageToNode(_, _, _)
addLanguageToNode(node, languages, languageCode) ==
    IF node = <<>> THEN <<>>
    ELSE LET e == Head(node)
             rest == addLanguageToNode(Tail(node), languages, languageCode)
         IN  IF e.v.t # "obj" THEN rest
             ELSE IF isLeaf(e.v.o, languages)
             THEN <<Entry(e.k, Obj(Put(e.v.o, languageCode, Str(""))))>> \o rest
             ELSE <<Entry(e.k, Obj(addLanguageToNode(e.v.o, languages, languageCode)))>> \o rest

addLanguage(d, languageCode) ==
    IF Includes(d.languages, languageCode) THEN d
    ELSE Catalog(d.project, Append(d.languages, languageCode),
                 addLanguageToNode(d.translations, d.languages, languageCode))

RECURSIVE removeLanguageFromNode(_, _, _)
removeLanguageFromNode(node, languages, languageCode) ==
    IF node = <<>> THEN <<>>
    ELSE LET e == Head(node)
             rest == removeLanguageFromNode(Tail(node), languages, languageCode)
         IN  IF e.v.t # "obj" THEN rest
             ELSE IF isLeaf(e.v.o, languages)
             THEN <<Entry(e.k, Obj(Del(e.v.o, languageCode)))>> \o rest
             ELSE <<Entry(e.k, Obj(removeLanguageFromNode(e.v.o, languages, languageCode)))>> \o rest

\* removeLanguage with the guard "languages.length < 1"
removeLanguage_lastAllowed(d, languageCode) ==
    IF Len(d.languages) < 1 THEN d
    ELSE Catalog(d.project, SelectSeq(d.languages, LAMBDA l : l # languageCode),
                 removeLanguageFromNode(d.translations, d.languages, languageCode))

removeLanguage(d, languageCode) ==
    IF Len(d.languages) <= 1 THEN d
    ELSE Catalog(d.project, SelectSeq(d.languages, LAMBDA l : l # languageCode),
                 removeLanguageFromNode(d.translations, d.languages, languageCode))

-----------------------------------------------------------------------------
(* exportToJson *)

JsNull == [t |-> "null", s |-> "", o |-> <<>>]

\* value[lang] || ''
ValueOr(o, lang) == IF Truthy(Get(o, lang)) THEN Get(o, lang) ELSE Str("")

RECURSIVE extractLanguage(_, _, _)
extractLanguage(node, languages, lang) ==
    IF node = <<>> THEN <<>>
    ELSE LET e == Head(node)
             rest == extractLanguage(Tail(node), languages, lang)
         IN  IF e.v.t # "obj" THEN rest
             ELSE IF isLeaf(e.v.o, languages)
             THEN <<Entry(e.k, ValueOr(e.v.o, lang))>> \o rest
             ELSE <<Entry(e.k, Obj(extractLanguage(e.v.o, languages, lang)))>> \o rest

\* exportToJson with the test "if (language)" left out
exportToJson_alwaysExtracts(d, language) ==
    IF d = Null THEN JsNull
    ELSE Obj(extractLanguage(d.translations, d.languages, language))

\* exportToJson(language); no argument is the language ""
exportToJson(d, language) ==
    IF d = Null THEN JsNull
    ELSE IF language # "" THEN Obj(extractLanguage(d.translations, d.languages, language))
    ELSE Obj(d.translations)

-----------------------------------------------------------------------------
(* buildTree *)

\* A completeness, as the exact fraction num / den
Rat(num, den) == [num |-> num, den |-> den]

RatAdd(a, b) == Rat(a.num * b.den + b.num * a.den, a.den * b.den)

RatDiv(a, n) == Rat(a.num, a.den * n)

\* String.prototype.trim on the strings of the model, where " " is the one
\* made of whitespace
Trim(s) == IF s = " " THEN "" ELSE s

\* values[lang]?.trim() is a TypeError when values[lang] is an object
TrimThrows(values, languages) ==
    \E i \in 1..Len(languages) : Get(values, languages[i]).t = "obj"

\* data.languages.filter(lang => values[lang]?.trim()).length
filledCount(values, languages) ==
    Cardinality({i \in 1..Len(languages) :
        LET v == Get(values, languages[i])
        IN  v.t = "str" /\ Trim(v.s) # ""})

\* buildTree ends in an exception: trim of an object in a node classified as
\* a leaf, Object.keys(undefined), or the unbounded recursion into a
\* non-empty string child
RECURSIVE buildTreeThrows(_, _)
buildTreeThrows(node, languages) ==
    \E i \in 1..Len(node) :
        LET value == node[i].v
        IN  IF value.t = "obj"
            THEN IF isLeaf(value.o, languages)
                 THEN TrimThrows(value.o, languages)
                 ELSE buildTreeThrows(value.o, languages)
            ELSE value.t = "undef" \/ value.s # ""

\* children.reduce((sum, child) => sum + (child.completeness || 0), 0)
RECURSIVE totalCompleteness(_)
totalCompleteness(children) ==
    IF children = <<>> THEN Rat(0, 1)
    ELSE RatAdd(Head(children).completeness, totalCompleteness(Tail(children)))

\* The sum and the number of the leaves below a list of display nodes
RECURSIVE LeafTotal(_)
LeafTotal(children) ==
    IF children = <<>> THEN Rat(0, 1)
    ELSE LET c == Head(children)
         IN  RatAdd(IF c.isLeaf THEN c.completeness ELSE LeafTotal(c.children),
                    LeafTotal(Tail(children)))

RECURSIVE LeafCount(_)
LeafCount(children) ==
    IF children = <<>> THEN 0
    ELSE LET c == Head(children)
         IN  (IF c.isLeaf THEN 1 ELSE LeafCount(c.children)) + LeafCount(Tail(children))

\* buildTree with the completeness of a namespace taken over the leaves below
\* it, each weighing the same
RECURSIVE buildTree_leafWeighted(_, _, _, _)
buildTree_leafWeighted(node, languages, path, depth) ==
    IF node = <<>> THEN <<>>
    ELSE
        LET key == Head(node).k
            value == Head(node).v
            currentPath == Append(path, key)
            rest == buildTree_leafWeighted(Tail(node), languages, path, depth)
        IN  IF value.t = "obj" /\ isLeaf(value.o, languages)
            THEN << [key |-> key, path |-> currentPath, depth |-> depth, isLeaf |-> TRUE,
                     children |-> <<>>, values |-> value.o,
                     completeness |-> Rat(filledCount(value.o, languages) * 100,
                                          Len(languages))] >> \o rest
            ELSE LET children == buildTree_leafWeighted(value.o, languages, currentPath, depth + 1)
                 IN  << [key |-> key, path |-> currentPath, depth |-> depth, isLeaf |-> FALSE,
                      children |-> children, values |-> <<>>,
                      completeness |-> IF LeafCount(children) > 0
                                       THEN RatDiv(LeafTotal(children), LeafCount(children))
                                       ELSE Rat(100, 1)] >> \o rest

\* buildTree(node, path, depth) when it returns: the display nodes of the
\* entries of node in their order, a path being the list of its keys; a leaf
\* has no children and a namespace no values
RECURSIVE buildTree(_, _, _, _)
buildTree(node, languages, path, depth) ==
    IF node = <<>> THEN <<>>
    ELSE
        LET key == Head(node).k
            value == Head(node).v
            currentPath == Append(path, key)
            rest == buildTree(Tail(node), languages, path, depth)
        IN  IF value.t = "obj" /\ isLeaf(value.o, languages)
            THEN << [key |-> key, path |-> currentPath, depth |-> depth, isLeaf |-> TRUE,
                     children |-> <<>>, values |-> value.o,
                     completeness |-> Rat(filledCount(value.o, languages) * 100,
                                          Len(languages))] >> \o rest
            ELSE LET children == buildTree(value.o, languages, currentPath, depth + 1)
                 IN  << [key |-> key, path |-> currentPath, depth |-> depth, isLeaf |-> FALSE,
                      children |-> children, values |-> <<>>,
                      completeness |-> IF Len(children) > 0
                                       THEN RatDiv(totalCompleteness(children), Len(children))
                                       ELSE Rat(100, 1)] >> \o rest

-----------------------------------------------------------------------------
(* The JSON console of the editor *)

\* flattenedNodes: the leaf display nodes, in display order (filteredNodes with
\* no path, search or missing filter set)
RECURSIVE flatten(_)
flatten(items) ==
    IF items = <<>> THEN <<>>
    ELSE LET item == Head(items)
         IN  (IF item.isLeaf THEN <<item>> ELSE flatten(item.children))
             \o flatten(Tail(items))

\* const node = filteredNodes.find(n => n.path === keyPath);
\* const currentValue = node?.values?.[lang] || ""
currentValue(filteredNodes, keyPath, lang) ==
    LET found == {i \in 1..Len(filteredNodes) : filteredNodes[i].path = keyPath}
    IN  IF found = {} THEN Str("")
        ELSE LET node == filteredNodes[CHOOSE i \in found : \A j \in found : i <= j]
                 v == Get(node.values, lang)
             IN  IF Truthy(v) THEN v ELSE Str("")

\* One (keyPath, language, value) entry of the parsed JSON
Update(keyPath, language, value) ==
    [keyPath |-> keyPath, language |-> language, value |-> value]

\* updates: the entries of the parsed JSON whose value is not the rendered one
updates(parsed, filteredNodes) ==
    SelectSeq(parsed,
              LAMBDA u : currentValue(filteredNodes, u.keyPath, u.language) # Str(u.value))

\* updates.forEach(u => onUpdateTranslation(...)): every call is the
\* updateTranslation of the same render, so each clones the same data and the
\* last setData is the one that stays, while the setUnsavedChanges updaters
\* run one after the other; an exception ends the loop in the handler's catch
RECURSIVE applyUpdates(_, _, _, _)
applyUpdates(d, od, done, us) ==
    IF us = <<>> THEN done
    ELSE LET u == Head(us)
             r == updateTranslation(d, od, done.unsavedChanges, u.keyPath, u.language, u.value)
         IN  IF r.threw THEN [done EXCEPT !.threw = TRUE]
             ELSE applyUpdates(d, od, r, Tail(us))

-----------------------------------------------------------------------------
(* Inputs of the calls *)

\* Key paths: a top-level leaf, a nested leaf, and a path whose first segment
\* exists only after a rename to "q"
Paths == {<<"w">>, <<"a", "t">>, <<"q", "t">>}

\* Languages passed to updateTranslation: an active one, and one that is not
Languages == {"en", "fr"}

\* Values: empty, whitespace only, and the text the mock catalog holds
Values == {"", " ", "x"}

\* Paths passed to renameKey: a namespace, a top-level leaf, a nested leaf
RenamePaths == {<<"a">>, <<"w">>, <<"a", "t">>}

\* New key names: a fresh one, and the name of an existing top-level key
KeyNames == {"q", "w"}

\* Language codes: the two active ones, a new one, and a new one that is also
\* the name of a key of namespace "a"
Codes == {"en", "de", "fr", "t"}

\* Languages passed to exportToJson: none, an active one, and one that is not
ExportLanguages == {"", "en", "fr"}

\* Contents of the JSON console when Apply is pressed, as the entries of the
\* parsed JSON: two leaves, one leaf in two languages, and a key the catalog
\* has only after a rename to "q"
JsonContents ==
    { << Update(<<"w">>, "en", ""), Update(<<"a", "t">>, "de", "x") >>,
      << Update(<<"a", "t">>, "en", ""), Update(<<"a", "t">>, "de", "x") >>,
      << Update(<<"w">>, "de", ""), Update(<<"q", "t">>, "en", "x") >> }

-----------------------------------------------------------------------------
(* The record of the last step *)

State == [data |-> data, originalData |-> originalData, unsavedChanges |-> unsavedChanges]

\* The call field of a step that is not the completion of a save
NoCall == [data |-> Null, originalData |-> Null, unsavedChanges |-> <<>>]

\* op: the call or completion; pre: the state it started from; call: for the
\* completion of a save, the state its saveChanges call started from, and
\* quiet: whether nothing else ran between that call and the completion; out:
\* the structure exportToJson returned; updates: the updates the JSON console
\* issued
Step(op, keyPath, language, value, threw, result, call, quiet) ==
    [op |-> op, keyPath |-> keyPath, language |-> language, value |-> value,
     threw |-> threw, result |-> result, pre |-> State, call |-> call, quiet |-> quiet,
     out |-> Undef, updates |-> <<>>]

\* A call of one of the synchronous operations
Call(op, keyPath, language, value, threw) ==
    Step(op, keyPath, language, value, threw, "undefined", NoCall, TRUE)

\* Every saveChanges call in flight has now seen another step run
Disturbed == [i \in 1..Len(saves) |-> [saves[i] EXCEPT !.quiet = FALSE]]

Counted == ops < MaxOps /\ ops' = ops + 1

-----------------------------------------------------------------------------
(* Actions *)

Init ==
    /\ data = Null
    /\ originalData = Null
    /\ unsavedChanges = <<>>
    /\ loading = TRUE
    /\ error = Null
    /\ saves = <<>>
    /\ fetches = 1          \* the mount effect has called fetchTranslations
    /\ ops = 0
    /\ last = Step("mount", <<>>, "", "", FALSE, "undefined", NoCall, TRUE)

\* refetch(): fetchTranslations up to its await
FetchStart ==
    /\ Counted
    /\ fetches < MaxInFlight
    /\ fetches' = fetches + 1
    /\ loading' = TRUE
    /\ error' = Null
    /\ saves' = Disturbed
    /\ last' = Call("fetchTranslations", <<>>, "", "", FALSE)
    /\ UNCHANGED <<data, originalData, unsavedChanges>>

\* The awaited call of fetchTranslations resolves
FetchResolve ==
    /\ fetches > 0
    /\ fetches' = fetches - 1
    /\ data' = mockData
    /\ originalData' = JsonClone(mockData)
    /\ loading' = FALSE
    /\ saves' = Disturbed
    /\ last' = Call("fetchResolve", <<>>, "", "", FALSE)
    /\ UNCHANGED <<unsavedChanges, error, ops>>

\* FetchReject with the catalog set back to null
FetchReject_dropsCatalog ==
    /\ fetches > 0
    /\ fetches' = fetches - 1
    /\ error' = [null |-> FALSE, message |-> "Failed to fetch translations"]
    /\ loading' = FALSE
    /\ data' = Null
    /\ saves' = Disturbed
    /\ last' = Call("fetchReject", <<>>, "", "", FALSE)
    /\ UNCHANGED <<originalData, unsavedChanges, ops>>

\* The awaited call of fetchTranslations rejects
FetchReject ==
    /\ fetches > 0
    /\ fetches' = fetches - 1
    /\ error' = [null |-> FALSE, message |-> "Failed to fetch translations"]
    /\ loading' = FALSE
    /\ saves' = Disturbed
    /\ last' = Call("fetchReject", <<>>, "", "", FALSE)
    /\ UNCHANGED <<data, originalData, unsavedChanges, ops>>

UpdateTranslation(keyPath, language, value) ==
    /\ Counted
    /\ IF data = Null \/ originalData = Null
       THEN /\ last' = Call("updateTranslation", keyPath, language, value, FALSE)
            /\ UNCHANGED <<data, unsavedChanges>>
       ELSE LET r == updateTranslation(data, originalData, unsavedChanges,
                                       keyPath, language, value)
            IN  /\ data' = r.data
                /\ unsavedChanges' = r.unsavedChanges
                /\ last' = Call("updateTranslation", keyPath, language, value, r.threw)
    /\ saves' = Disturbed
    /\ UNCHANGED <<originalData, loading, error, fetches>>

RenameKey(oldPath, newKeyName) ==
    /\ Counted
    /\ IF data = Null
       THEN /\ last' = Call("renameKey", oldPath, "", newKeyName, FALSE)
            /\ UNCHANGED <<data, unsavedChanges>>
       ELSE LET r == renameKey(data, unsavedChanges, oldPath, newKeyName)
            IN  /\ data' = r.data
                /\ unsavedChanges' = r.unsavedChanges
                /\ last' = Call("renameKey", oldPath, "", newKeyName, r.threw)
    /\ saves' = Disturbed
    /\ UNCHANGED <<originalData, loading, error, fetches>>

\* AddLanguage recording the new language as a pending change
AddLanguage_tracksChange(languageCode) ==
    /\ Counted
    /\ data' = IF data = Null THEN data ELSE addLanguage(data, languageCode)
    /\ unsavedChanges' = Append(unsavedChanges, Change(<<>>, languageCode, "", ""))
    /\ saves' = Disturbed
    /\ last' = Call("addLanguage", <<>>, languageCode, "", FALSE)
    /\ UNCHANGED <<originalData, loading, error, fetches>>

AddLanguage(languageCode) ==
    /\ Counted
    /\ data' = IF data = Null THEN data ELSE addLanguage(data, languageCode)
    /\ saves' = Disturbed
    /\ last' = Call("addLanguage", <<>>, languageCode, "", FALSE)
    /\ UNCHANGED <<originalData, unsavedChanges, loading, error, fetches>>

RemoveLanguage(languageCode) ==
    /\ Counted
    /\ data' = IF data = Null THEN data ELSE removeLanguage(data, languageCode)
    /\ saves' = Disturbed
    /\ last' = Call("removeLanguage", <<>>, languageCode, "", FALSE)
    /\ UNCHANGED <<originalData, unsavedChanges, loading, error, fetches>>

\* saveChanges() up to its await; with no catalog it returns at once
SaveStart ==
    /\ Counted
    /\ IF data = Null
       THEN /\ saves' = Disturbed
            /\ last' = Call("saveChanges", <<>>, "", "", FALSE)
       ELSE /\ Len(saves) < MaxInFlight
            /\ saves' = Append(Disturbed, [call |-> State, quiet |-> TRUE])
            /\ last' = Call("saveStart", <<>>, "", "", FALSE)
    /\ UNCHANGED <<data, originalData, unsavedChanges, loading, error, fetches>>

\* SaveResolve without setUnsavedChanges([])
SaveResolve_keepsChanges ==
    /\ saves # <<>>
    /\ originalData' = JsonClone(Head(saves).call.data)
    /\ saves' = Tail(Disturbed)
    /\ last' = Step("saveResolve", <<>>, "", "", FALSE, "true",
                    Head(saves).call, Head(saves).quiet)
    /\ UNCHANGED <<data, unsavedChanges, loading, error, fetches, ops>>

\* The awaited call of the oldest saveChanges resolves: it stores a copy of the
\* catalog its call was made with
SaveResolve ==
    /\ saves # <<>>
    /\ originalData' = JsonClone(Head(saves).call.data)
    /\ unsavedChanges' = <<>>
    /\ saves' = Tail(Disturbed)
    /\ last' = Step("saveResolve", <<>>, "", "", FALSE, "true",
                    Head(saves).call, Head(saves).quiet)
    /\ UNCHANGED <<data, loading, error, fetches, ops>>

\* SaveReject with the changes cleared in the catch block
SaveReject_clearsChanges ==
    /\ saves # <<>>
    /\ saves' = Tail(Disturbed)
    /\ unsavedChanges' = <<>>
    /\ last' = Step("saveReject", <<>>, "", "", FALSE, "false",
                    Head(saves).call, Head(saves).quiet)
    /\ UNCHANGED <<data, originalData, loading, error, fetches, ops>>

\* The awaited call of the oldest saveChanges rejects
SaveReject ==
    /\ saves # <<>>
    /\ saves' = Tail(Disturbed)
    /\ last' = Step("saveReject", <<>>, "", "", FALSE, "false",
                    Head(saves).call, Head(saves).quiet)
    /\ UNCHANGED <<data, originalData, unsavedChanges, loading, error, fetches, ops>>

\* DiscardChanges restoring the translations tree only
DiscardChanges_treeOnly ==
    /\ Counted
    /\ IF originalData # Null
       THEN /\ data' = [data EXCEPT !.translations = CloneObj(originalData.translations)]
            /\ unsavedChanges' = <<>>
       ELSE UNCHANGED <<data, unsavedChanges>>
    /\ saves' = Disturbed
    /\ last' = Call("discardChanges", <<>>, "", "", FALSE)
    /\ UNCHANGED <<originalData, loading, error, fetches>>

DiscardChanges ==
    /\ Counted
    /\ IF originalData # Null
       THEN /\ data' = JsonClone(originalData)
            /\ unsavedChanges' = <<>>
       ELSE UNCHANGED <<data, unsavedChanges>>
    /\ saves' = Disturbed
    /\ last' = Call("discardChanges", <<>>, "", "", FALSE)
    /\ UNCHANGED <<originalData, loading, error, fetches>>

ExportToJson(language) ==
    /\ Counted
    /\ saves' = Disturbed
    /\ last' = [Call("exportToJson", <<>>, language, "", FALSE)
                   EXCEPT !.out = exportToJson(data, language)]
    /\ UNCHANGED <<data, originalData, unsavedChanges, loading, error, fetches>>

\* handleApplyJsonChanges of the editor, which exists once the tree view is
\* rendered
ApplyJsonChanges(parsed) ==
    /\ Counted
    /\ data # Null /\ originalData # Null
    /\ ~buildTreeThrows(data.translations, data.languages)
    /\ LET filteredNodes == flatten(buildTree(data.translations, data.languages, <<>>, 0))
           us == updates(parsed, filteredNodes)
           r == applyUpdates(data, originalData,
                             [threw |-> FALSE, data |-> data, unsavedChanges |-> unsavedChanges],
                             us)
       IN  /\ data' = r.data
           /\ unsavedChanges' = r.unsavedChanges
           /\ last' = [Call("applyJsonChanges", <<>>, "", "", r.threw) EXCEPT !.updates = us]
    /\ saves' = Disturbed
    /\ UNCHANGED <<originalData, loading, error, fetches>>

Next ==
    \/ FetchStart
    \/ FetchResolve
    \/ FetchReject
    \/ \E keyPath \in Paths, language \in Languages, value \in Values :
           UpdateTranslation(keyPath, language, value)
    \/ \E oldPath \in RenamePaths, newKeyName \in KeyNames : RenameKey(oldPath, newKeyName)
    \/ \E languageCode \in Codes : AddLanguage(languageCode)
    \/ \E languageCode \in Codes : RemoveLanguage(languageCode)
    \/ SaveStart
    \/ SaveResolve
    \/ SaveReject
    \/ DiscardChanges
    \/ \E language \in ExportLanguages : ExportToJson(language)

Spec == Init /\ [][Next]_vars

\* The hook together with the editor's JSON console
NextConsole ==
    \/ Next
    \/ \E parsed \in JsonContents : ApplyJsonChanges(parsed)

SpecConsole == Init /\ [][NextConsole]_vars

-----------------------------------------------------------------------------
(* Vocabulary of the properties *)

\* Deep equality of two objects: same keys, equal values, whatever the key order
RECURSIVE ObjEq(_, _)
ObjEq(a, b) ==
    /\ {a[i].k : i \in 1..Len(a)} = {b[i].k : i \in 1..Len(b)}
    /\ Len(a) = Len(b)
    /\ \A i \in 1..Len(a) :
          LET x == a[i].v
              y == Get(b, a[i].k)
          IN  /\ x.t = y.t
              /\ IF x.t = "obj" THEN ObjEq(x.o, y.o) ELSE x.s = y.s

\* Deep equality of two catalogs: project, language list (in order) and tree
CatalogEq(c, d) ==
    /\ c # Null /\ d # Null
    /\ c.project = d.project
    /\ c.languages = d.languages
    /\ ObjEq(c.translations, d.translations)

\* The string at (path, language) of a catalog, an absent entry counting as ""
RECURSIVE StringAt(_, _)
StringAt(x, keys) ==
    IF keys = <<>> THEN (IF x.t = "str" THEN x.s ELSE "")
    ELSE IF x.t = "obj" THEN StringAt(Get(x.o, Head(keys)), Tail(keys))
    ELSE ""

SnapshotValue(keyPath, language) ==
    IF originalData = Null THEN ""
    ELSE StringAt(Obj(originalData.translations), Append(keyPath, language))

\* A leaf by its shape (types/translation.ts): a non-empty map to strings
ShapeLeaf(x) == x.t = "obj" /\ x.o # <<>> /\ \A i \in 1..Len(x.o) : x.o[i].v.t = "str"

KeySet(o) == {o[i].k : i \in 1..Len(o)}

NoDuplicates(arr) == \A i, j \in 1..Len(arr) : arr[i] = arr[j] => i = j

Loaded(st) == st.data # Null

\* Every object below o is classified by isLeaf as its shape says
RECURSIVE Unambiguous(_, _)
Unambiguous(o, languages) ==
    \A i \in 1..Len(o) :
        LET x == o[i].v
        IN  /\ x.t = "obj"
            /\ isLeaf(x.o, languages) <=> ShapeLeaf(x)
            /\ ShapeLeaf(x) \/ Unambiguous(x.o, languages)

-----------------------------------------------------------------------------
(* C1..C10 *)

\* C1: after updateTranslation(path, language, v) with v equal to the Original
\* Snapshot's value at (path, language), absent counting as "", unsavedChanges
\* holds no entry for (path, language).
C1_IdempotentRevert ==
    (/\ last.op = "updateTranslation"
     /\ last.value = SnapshotValue(last.keyPath, last.language))
    => FindIndex(unsavedChanges, last.keyPath, last.language) = 0

\* C1 on the calls that return: the revert is tracked whenever the call does
\* not throw.
C1_RevertWhenReturned ==
    (/\ last.op = "updateTranslation"
     /\ ~last.threw
     /\ last.value = SnapshotValue(last.keyPath, last.language))
    => FindIndex(unsavedChanges, last.keyPath, last.language) = 0

\* C2: unsavedChanges holds at most one entry per (keyPath, language), the
\* rename sentinel counting as a language, and after an updateTranslation that
\* entry carries the value just written.
C2_OneEntryPerPair ==
    /\ \A i, j \in 1..Len(unsavedChanges) :
          (/\ unsavedChanges[i].keyPath = unsavedChanges[j].keyPath
           /\ unsavedChanges[i].language = unsavedChanges[j].language) => i = j
    /\ (last.op = "updateTranslation" /\ ~last.threw) =>
          \A i \in 1..Len(unsavedChanges) :
              (/\ unsavedChanges[i].keyPath = last.keyPath
               /\ unsavedChanges[i].language = last.language)
              => unsavedChanges[i].newValue = Str(last.value)

\* C2 for the entries of real languages only.
C2_OneEntryPerLanguagePair ==
    \A i, j \in 1..Len(unsavedChanges) :
        (/\ unsavedChanges[i].language # RenameSentinel
         /\ unsavedChanges[i].keyPath = unsavedChanges[j].keyPath
         /\ unsavedChanges[i].language = unsavedChanges[j].language) => i = j

\* C3: when a save resolves and nothing else ran since its call, saveChanges
\* returns true, unsavedChanges is empty and the Original Snapshot deep-equals
\* the catalog.
C3_SaveSuccess ==
    (last.op = "saveResolve" /\ last.quiet) =>
        /\ last.result = "true"
        /\ unsavedChanges = <<>>
        /\ CatalogEq(originalData, data)

\* A save of a catalog with pending changes that differs from the snapshot
\* it replaces has resolved undisturbed.
C3_Witness ==
    /\ last.op = "saveResolve" /\ last.quiet
    /\ last.call.unsavedChanges # <<>>
    /\ ~CatalogEq(last.call.originalData, last.call.data)

\* C4: when the save call fails, saveChanges returns false and has changed
\* neither the catalog, nor the Original Snapshot, nor unsavedChanges: the
\* call up to its await changes none of them, the failure changes none of
\* them, and when nothing else ran in between they are what they were before
\* saveChanges was called.
C4_SaveFailure ==
    /\ last.op = "saveStart" => State = last.pre
    /\ last.op = "saveReject" =>
          /\ last.result = "false"
          /\ State = last.pre
          /\ last.quiet => State = last.call

\* A save of a catalog with pending changes has failed.
C4_Witness ==
    /\ last.op = "saveReject" /\ last.quiet
    /\ unsavedChanges # <<>>
    /\ ~CatalogEq(originalData, data)

\* C5: after discardChanges with an Original Snapshot, the catalog deep-equals
\* the snapshot (tree and language list), unsavedChanges is empty and the
\* snapshot is unchanged.
C5_Discard ==
    (last.op = "discardChanges" /\ last.pre.originalData # Null) =>
        /\ CatalogEq(data, originalData)
        /\ unsavedChanges = <<>>
        /\ originalData = last.pre.originalData

\* discardChanges has undone a language change and a tracked rename.
C5_Witness ==
    /\ last.op = "discardChanges"
    /\ last.pre.originalData # Null
    /\ last.pre.data.languages # last.pre.originalData.languages
    /\ \E i \in 1..Len(last.pre.unsavedChanges) :
          last.pre.unsavedChanges[i].language = RenameSentinel
    /\ ~ObjEq(last.pre.data.translations, last.pre.originalData.translations)

\* C6: for the catalog of any reachable state and any code that is not active,
\* addLanguage(code) followed by removeLanguage(code) gives back the
\* translations tree and the language list.
C6_AddRemoveRoundTrip ==
    data # Null =>
        \A code \in Codes :
            ~Includes(data.languages, code) =>
                CatalogEq(removeLanguage(addLanguage(data, code), code), data)

\* C7: removeLanguage on a catalog with exactly one language changes nothing,
\* and a loaded catalog always has at least one language.
C7_AtLeastOneLanguage ==
    /\ data # Null => Len(data.languages) >= 1
    /\ (/\ last.op = "removeLanguage"
        /\ Loaded(last.pre)
        /\ Len(last.pre.data.languages) = 1) => State = last.pre

\* removeLanguage was called for the only language of the catalog.
C7_Witness ==
    /\ last.op = "removeLanguage"
    /\ Loaded(last.pre)
    /\ last.pre.data.languages = <<last.language>>

\* C8, on one object and its image: every shape-leaf child gains code -> ""
\* and keeps its other entries, every other child keeps its keys, recursively.
RECURSIVE AddedTo(_, _, _)
AddedTo(before, after, code) ==
    /\ Keys(after) = Keys(before)
    /\ \A i \in 1..Len(before) :
          LET x == before[i].v
              y == Get(after, before[i].k)
          IN  IF ShapeLeaf(x)
              THEN /\ y.t = "obj"
                   /\ KeySet(y.o) = KeySet(x.o) \cup {code}
                   /\ Get(y.o, code) = Str("")
                   /\ \A k \in KeySet(x.o) \ {code} : Get(y.o, k) = Get(x.o, k)
              ELSE IF x.t = "obj"
              THEN y.t = "obj" /\ AddedTo(x.o, y.o, code)
              ELSE y = x

\* C8: addLanguage(code) with a code that is not active gives every leaf the
\* entry code -> "" and keeps its other entries, keeps every namespace's keys
\* and nesting, and appends code to the language list.
C8_AddLanguage ==
    (/\ last.op = "addLanguage"
     /\ Loaded(last.pre)
     /\ ~Includes(last.pre.data.languages, last.language)) =>
        /\ data.languages = Append(last.pre.data.languages, last.language)
        /\ NoDuplicates(data.languages)
        /\ AddedTo(last.pre.data.translations, data.translations, last.language)

\* C8 on the catalogs whose nodes isLeaf classifies as their shape says.
C8_AddLanguageUnambiguous ==
    (/\ last.op = "addLanguage"
     /\ Loaded(last.pre)
     /\ ~Includes(last.pre.data.languages, last.language)
     /\ Unambiguous(last.pre.data.translations, last.pre.data.languages)) =>
        /\ data.languages = Append(last.pre.data.languages, last.language)
        /\ NoDuplicates(data.languages)
        /\ AddedTo(last.pre.data.translations, data.translations, last.language)

\* C9, on one object and its image: every shape-leaf child loses its entry for
\* code and keeps its other entries, every other child keeps its keys.
RECURSIVE RemovedFrom(_, _, _)
RemovedFrom(before, after, code) ==
    /\ Keys(after) = Keys(before)
    /\ \A i \in 1..Len(before) :
          LET x == before[i].v
              y == Get(after, before[i].k)
          IN  IF ShapeLeaf(x)
              THEN /\ y.t = "obj"
                   /\ KeySet(y.o) = KeySet(x.o) \ {code}
                   /\ \A k \in KeySet(y.o) : Get(y.o, k) = Get(x.o, k)
              ELSE IF x.t = "obj"
              THEN y.t = "obj" /\ RemovedFrom(x.o, y.o, code)
              ELSE y = x

\* C9: removeLanguage(code) with an active code on two or more languages
\* removes the entry for code from every leaf and keeps the others, keeps
\* every namespace's keys and nesting, and removes code from the language
\* list, the order of the rest preserved.
C9_RemoveLanguage ==
    (/\ last.op = "removeLanguage"
     /\ Loaded(last.pre)
     /\ Len(last.pre.data.languages) >= 2
     /\ Includes(last.pre.data.languages, last.language)) =>
        /\ data.languages = SelectSeq(last.pre.data.languages, LAMBDA l : l # last.language)
        /\ RemovedFrom(last.pre.data.translations, data.translations, last.language)

\* C9 on the catalogs whose nodes isLeaf classifies as their shape says.
C9_RemoveLanguageUnambiguous ==
    (/\ last.op = "removeLanguage"
     /\ Loaded(last.pre)
     /\ Len(last.pre.data.languages) >= 2
     /\ Includes(last.pre.data.languages, last.language)
     /\ Unambiguous(last.pre.data.translations, last.pre.data.languages)) =>
        /\ data.languages = SelectSeq(last.pre.data.languages, LAMBDA l : l # last.language)
        /\ RemovedFrom(last.pre.data.translations, data.translations, last.language)

\* C10: addLanguage with an active code and removeLanguage with a code that
\* is not active leave the language list and the translations tree unchanged.
C10_SilentNoOps ==
    (/\ Loaded(last.pre)
     /\ \/ last.op = "addLanguage" /\ Includes(last.pre.data.languages, last.language)
        \/ last.op = "removeLanguage" /\ ~Includes(last.pre.data.languages, last.language)) =>
        CatalogEq(data, last.pre.data)

-----------------------------------------------------------------------------
(* C11..C20 *)

\* The node a key path resolves to, undefined when it does not resolve
RECURSIVE NodeAt(_, _)
NodeAt(x, keys) ==
    IF keys = <<>> THEN x
    ELSE IF x.t = "obj" THEN NodeAt(Get(x.o, Head(keys)), Tail(keys))
    ELSE Undef

Resolves(d, keys) == NodeAt(Obj(d.translations), keys).t # "undef"

Front(keys) == SubSeq(keys, 1, Len(keys) - 1)

Final(keys) == keys[Len(keys)]

\* C11: renameKey(oldPath, newKeyName) on a path that resolves, with a new name
\* other than the path's final segment, leaves under the same parent at
\* newKeyName exactly the node that was at oldPath, and oldPath resolves no more.
C11_RenamePreservesValues ==
    (/\ last.op = "renameKey"
     /\ Loaded(last.pre)
     /\ Resolves(last.pre.data, last.keyPath)
     /\ last.value # Final(last.keyPath)) =>
        /\ ~last.threw
        /\ NodeAt(Obj(data.translations), Append(Front(last.keyPath), last.value))
              = NodeAt(Obj(last.pre.data.translations), last.keyPath)
        /\ ~Resolves(data, last.keyPath)

\* A nested leaf that holds a value has been renamed.
C11_Witness ==
    /\ last.op = "renameKey"
    /\ Loaded(last.pre)
    /\ Len(last.keyPath) = 2
    /\ last.value # Final(last.keyPath)
    /\ ShapeLeaf(NodeAt(Obj(last.pre.data.translations), last.keyPath))

\* C12: exportToJson without a language returns a structure that deep-equals
\* the catalog's translations tree, unsaved edits included.
C12_ExportIdentity ==
    (last.op = "exportToJson" /\ last.language = "" /\ Loaded(last.pre)) =>
        /\ last.out.t = "obj"
        /\ ObjEq(last.out.o, data.translations)

\* The whole catalog was exported while it held unsaved edits.
C12_Witness ==
    /\ last.op = "exportToJson" /\ last.language = ""
    /\ Loaded(last.pre)
    /\ unsavedChanges # <<>>
    /\ ~ObjEq(data.translations, originalData.translations)

\* C13, on one object and its image: the same keys in the same order, every
\* shape-leaf child replaced by its string for lang ("" when it has none),
\* every other child an object related in the same way.
RECURSIVE ExtractedFrom(_, _, _)
ExtractedFrom(before, after, lang) ==
    /\ Keys(after) = Keys(before)
    /\ \A i \in 1..Len(before) :
          LET x == before[i].v
              y == Get(after, before[i].k)
          IN  IF ShapeLeaf(x)
              THEN y = Str(StringAt(x, <<lang>>))
              ELSE /\ x.t = "obj"
                   /\ y.t = "obj"
                   /\ ExtractedFrom(x.o, y.o, lang)

\* C13: exportToJson(language) returns the tree with the same namespace keys,
\* nesting and key order, every leaf replaced by its string for the language,
\* or "" when it has no entry.
C13_ExportLanguage ==
    (last.op = "exportToJson" /\ last.language # "" /\ Loaded(last.pre)) =>
        /\ last.out.t = "obj"
        /\ ExtractedFrom(data.translations, last.out.o, last.language)

\* C13 on the catalogs whose nodes isLeaf classifies as their shape says.
C13_ExportLanguageUnambiguous ==
    (/\ last.op = "exportToJson" /\ last.language # "" /\ Loaded(last.pre)
     /\ Unambiguous(data.translations, data.languages)) =>
        /\ last.out.t = "obj"
        /\ ExtractedFrom(data.translations, last.out.o, last.language)

\* The tree view of a state: what buildTree(data.translations) returns
Tree(st) == buildTree(st.data.translations, st.data.languages, <<>>, 0)

\* The tree view of a state is built without an exception
Renders(st) == Loaded(st) /\ ~buildTreeThrows(st.data.translations, st.data.languages)

\* All display nodes of a list of display nodes, at every depth, as a list
RECURSIVE DisplayNodes(_)
DisplayNodes(nodes) ==
    IF nodes = <<>> THEN <<>>
    ELSE <<Head(nodes)>> \o DisplayNodes(Head(nodes).children) \o DisplayNodes(Tail(nodes))

RatEq(a, b) == a.num * b.den = b.num * a.den

RatLeq(a, b) == a.num * b.den <= b.num * a.den

NonBlank(str) == str \notin {"", " "}

\* k: the active languages whose value in the leaf is non-blank after trimming
FilledLanguages(values, languages) ==
    {l \in {languages[i] : i \in 1..Len(languages)} : NonBlank(StringAt(Obj(values), <<l>>))}

\* Every leaf display node has completeness 100 * k / N.
LeafCompleteness(st) ==
    LET nodes == DisplayNodes(Tree(st))
    IN  \A i \in 1..Len(nodes) :
            LET n == nodes[i]
            IN  n.isLeaf =>
                    /\ RatEq(n.completeness,
                             Rat(100 * Cardinality(FilledLanguages(n.values, st.data.languages)),
                                 Len(st.data.languages)))
                    /\ \E j \in 0..Len(st.data.languages) :
                          RatEq(n.completeness, Rat(100 * j, Len(st.data.languages)))

\* After addLanguage of a new code the tree view is built, and every leaf of
\* the view before is a leaf of the view after with the same k and N + 1.
LeafAfterAddLanguage ==
    (/\ last.op = "addLanguage"
     /\ Renders(last.pre)
     /\ ~Includes(last.pre.data.languages, last.language)) =>
        /\ Renders(State)
        /\ Len(data.languages) = Len(last.pre.data.languages) + 1
        /\ LET before == DisplayNodes(Tree(last.pre))
               after == DisplayNodes(Tree(State))
           IN  \A i \in 1..Len(before) :
                   before[i].isLeaf =>
                       \E j \in 1..Len(after) :
                           /\ after[j].isLeaf
                           /\ after[j].path = before[i].path
                           /\ FilledLanguages(after[j].values, data.languages)
                                 = FilledLanguages(before[i].values, last.pre.data.languages)

\* C14: every leaf display node of buildTree has completeness 100 * k / N, N
\* the number of active languages and k the number of them whose value in the
\* leaf is non-blank after trimming, so one of 0, 100/N, ..., 100; after
\* addLanguage of a new code a leaf's k is unchanged and N is one more.
C14_LeafCompleteness ==
    /\ Renders(State) => LeafCompleteness(State)
    /\ LeafAfterAddLanguage

\* C14 on the catalogs whose nodes isLeaf classifies as their shape says.
C14_LeafCompletenessUnambiguous ==
    /\ Renders(State) => LeafCompleteness(State)
    /\ (Loaded(State) /\ Unambiguous(data.translations, data.languages)) =>
          LeafAfterAddLanguage

\* A language was added to a catalog that has a leaf holding a whitespace-only
\* value, and the classification stayed that of the shapes.
C14_Witness ==
    /\ last.op = "addLanguage"
    /\ Renders(last.pre)
    /\ ~Includes(last.pre.data.languages, last.language)
    /\ Unambiguous(data.translations, data.languages)
    /\ LET nodes == DisplayNodes(Tree(State))
       IN  \E j \in 1..Len(nodes) :
               /\ nodes[j].isLeaf
               /\ \E i \in 1..Len(nodes[j].values) : nodes[j].values[i].v = Str(" ")
               /\ Cardinality(FilledLanguages(nodes[j].values, data.languages)) = 1

\* The last step set or changed the catalog; the view of any other state is
\* that of the state the step started from
ViewChanged == data # last.pre.data

\* C15: every namespace display node of buildTree has completeness in
\* [0, 100], the unweighted mean of the completeness of its direct children;
\* a namespace with no children has completeness 100 and is not a leaf. Stated
\* on every view a step produces.
C15_NamespaceCompleteness ==
    (ViewChanged /\ Renders(State)) =>
        LET nodes == DisplayNodes(Tree(State))
        IN  \A i \in 1..Len(nodes) :
                LET n == nodes[i]
                IN  ~n.isLeaf =>
                        /\ RatLeq(Rat(0, 1), n.completeness)
                        /\ RatLeq(n.completeness, Rat(100, 1))
                        /\ IF n.children = <<>>
                           THEN RatEq(n.completeness, Rat(100, 1))
                           ELSE RatEq(RatDiv(totalCompleteness(n.children), Len(n.children)),
                                      n.completeness)

\* The view has a namespace without children, and a namespace whose children
\* are a leaf and a namespace of two leaves, of different completeness.
C15_Witness ==
    /\ ViewChanged
    /\ Renders(State)
    /\ LET nodes == DisplayNodes(Tree(State))
       IN  /\ \E k \in 1..Len(nodes) : ~nodes[k].isLeaf /\ nodes[k].children = <<>>
           /\ \E k \in 1..Len(nodes) :
                 LET n == nodes[k]
                 IN  /\ ~n.isLeaf
                     /\ Len(n.children) = 2
                     /\ \E i, j \in 1..2 :
                           /\ n.children[i].isLeaf
                           /\ ~n.children[j].isLeaf
                           /\ Len(n.children[j].children) = 2
                           /\ ~RatEq(n.children[i].completeness,
                                     n.children[j].completeness)

\* The parent of the key path resolves to an object that lacks the final segment
FinalAbsent(d, keys) ==
    LET parent == NodeAt(Obj(d.translations), Front(keys))
    IN  parent.t = "obj" /\ ~Has(parent.o, Final(keys))

\* C16: updateTranslation or renameKey on a key path whose parent resolves and
\* whose final segment is absent is a no-op: the translations tree, the
\* language list and unsavedChanges are unchanged in value.
C16_AbsentFinalNoOp ==
    (/\ last.op \in {"updateTranslation", "renameKey"}
     /\ Loaded(last.pre) /\ last.pre.originalData # Null
     /\ FinalAbsent(last.pre.data, last.keyPath)) =>
        /\ CatalogEq(data, last.pre.data)
        /\ unsavedChanges = last.pre.unsavedChanges

\* An intermediate segment of the key path does not resolve to an object
IntermediateUnresolved(d, keys) ==
    Len(keys) >= 2 /\ NodeAt(Obj(d.translations), Front(keys)).t # "obj"

\* C17: updateTranslation or renameKey on a key path with an intermediate
\* segment that does not resolve to a namespace completes without raising an
\* error and leaves the catalog, the snapshot and unsavedChanges unchanged.
C17_UnresolvedAbsorbed ==
    (/\ last.op \in {"updateTranslation", "renameKey"}
     /\ Loaded(last.pre) /\ last.pre.originalData # Null
     /\ IntermediateUnresolved(last.pre.data, last.keyPath)) =>
        /\ ~last.threw
        /\ State = last.pre

\* What such a call does: it raises a TypeError and leaves the state as it was.
C17_UnresolvedKeepsState ==
    (/\ last.op \in {"updateTranslation", "renameKey"}
     /\ Loaded(last.pre) /\ last.pre.originalData # Null
     /\ IntermediateUnresolved(last.pre.data, last.keyPath)) =>
        /\ last.threw
        /\ State = last.pre

\* C18: addLanguage and removeLanguage never change the snapshot or
\* unsavedChanges, in any state.
C18_LanguagesKeepChanges ==
    last.op \in {"addLanguage", "removeLanguage"} =>
        /\ originalData = last.pre.originalData
        /\ unsavedChanges = last.pre.unsavedChanges

\* A language was added or removed, the catalog changed, and there are
\* pending changes.
C18_Witness ==
    /\ last.op \in {"addLanguage", "removeLanguage"}
    /\ Loaded(last.pre)
    /\ data # last.pre.data
    /\ unsavedChanges # <<>>

\* C19: a load that fails sets error, sets loading to false and leaves the
\* catalog, the snapshot and unsavedChanges as they were, as does its start;
\* the catalog is null until a load succeeds, and a load that succeeds sets a
\* catalog and a snapshot that deep-equals it.
C19_LoadOutcome ==
    /\ last.op = "fetchReject" => (error # Null /\ ~loading /\ State = last.pre)
    /\ last.op = "fetchTranslations" => State = last.pre
    /\ (last.op # "fetchResolve" /\ last.pre.data = Null) => data = Null
    /\ last.op = "fetchResolve" =>
          (data # Null /\ originalData # Null /\ CatalogEq(data, originalData))

\* A reload failed on a catalog with unsaved edits.
C19_Witness ==
    /\ last.op = "fetchReject"
    /\ Loaded(last.pre)
    /\ unsavedChanges # <<>>
    /\ ~ObjEq(data.translations, originalData.translations)

\* Every shape-leaf at or below a node has only active language codes as keys
RECURSIVE LeafKeysActive(_, _)
LeafKeysActive(x, languages) ==
    IF ShapeLeaf(x)
    THEN KeySet(x.o) \subseteq {languages[i] : i \in 1..Len(languages)}
    ELSE x.t = "obj" => \A i \in 1..Len(x.o) : LeafKeysActive(x.o[i].v, languages)

\* C20: in every state after a successful load, the key set of every leaf is
\* a subset of the active language codes.
C20_LeafKeysActive ==
    Loaded(State) => LeafKeysActive(Obj(data.translations), data.languages)

-----------------------------------------------------------------------------
(* C21..C30 *)

\* No object at or below x that holds child objects has a key that is an active
\* language code
RECURSIVE NoCollision(_, _)
NoCollision(x, languages) ==
    x.t = "obj" =>
        /\ (\E i \in 1..Len(x.o) : x.o[i].v.t = "obj") =>
              \A i \in 1..Len(x.o) : ~Includes(languages, x.o[i].k)
        /\ \A i \in 1..Len(x.o) : NoCollision(x.o[i].v, languages)

\* C21: in every reachable state no node that holds child nodes has a direct
\* key equal to an active language code, so no namespace classifies as a leaf.
C21_NoCollision ==
    Loaded(State) =>
        \A i \in 1..Len(data.translations) :
            NoCollision(data.translations[i].v, data.languages)

\* C25: renameKey with a new name equal to the final segment of oldPath leaves
\* the translations tree unchanged, the node still resolving at oldPath.
C25_RenameToSameName ==
    (/\ last.op = "renameKey"
     /\ Loaded(last.pre)
     /\ Resolves(last.pre.data, last.keyPath)
     /\ last.value = Final(last.keyPath)) =>
        /\ ObjEq(data.translations, last.pre.data.translations)
        /\ Resolves(data, last.keyPath)

\* newKeyName names a sibling of the node at oldPath
SiblingExists(d, oldPath, newKeyName) ==
    LET parent == NodeAt(Obj(d.translations), Front(oldPath))
    IN  /\ parent.t = "obj"
        /\ Has(parent.o, Final(oldPath))
        /\ Has(parent.o, newKeyName)
        /\ newKeyName # Final(oldPath)

\* C26: renameKey onto the name of an existing sibling succeeds silently: the
\* renamed node stands where the sibling stood, the parent has the other keys
\* it had with the nodes they had, and nothing is left of the sibling; the one
\* pending change appended is that of the rename.
C26_RenameOverwritesSibling ==
    (/\ last.op = "renameKey"
     /\ Loaded(last.pre)
     /\ SiblingExists(last.pre.data, last.keyPath, last.value)) =>
        LET before == NodeAt(Obj(last.pre.data.translations), Front(last.keyPath))
            after == NodeAt(Obj(data.translations), Front(last.keyPath))
        IN  /\ ~last.threw
            /\ after.t = "obj"
            /\ KeySet(after.o) = KeySet(before.o) \ {Final(last.keyPath)}
            /\ Get(after.o, last.value) = Get(before.o, Final(last.keyPath))
            /\ \A k \in KeySet(after.o) \ {last.value} : Get(after.o, k) = Get(before.o, k)
            /\ unsavedChanges = Append(last.pre.unsavedChanges,
                  Change(last.keyPath, RenameSentinel,
                         Str(Final(last.keyPath)), Str(last.value)))

\* A namespace was renamed onto a sibling leaf that held values.
C26_Witness ==
    /\ last.op = "renameKey"
    /\ Loaded(last.pre)
    /\ SiblingExists(last.pre.data, last.keyPath, last.value)
    /\ ShapeLeaf(NodeAt(Obj(last.pre.data.translations),
                        Append(Front(last.keyPath), last.value)))
    /\ ~ShapeLeaf(NodeAt(Obj(last.pre.data.translations), last.keyPath))

\* The key path resolves to a leaf of the catalog whose parent does not resolve
\* to an object in the snapshot
LeafUnderNewPath(st, keys) ==
    /\ Len(keys) >= 2
    /\ ShapeLeaf(NodeAt(Obj(st.data.translations), keys))
    /\ NodeAt(Obj(st.originalData.translations), Front(keys)).t # "obj"

\* The pending change for (keyPath, language) is there with the given original
\* and new value, or is absent when the two are equal
Tracked(changes, keyPath, language, originalValue, newValue) ==
    IF originalValue = newValue
    THEN \A i \in 1..Len(changes) :
            ~(changes[i].keyPath = keyPath /\ changes[i].language = language)
    ELSE \E i \in 1..Len(changes) :
            changes[i] = Change(keyPath, language, Str(originalValue), Str(newValue))

\* C27: after renameKey has renamed a namespace, updateTranslation on a leaf
\* by its new path completes without error and sets the leaf's value, the
\* original value being "" when the snapshot does not have the new path.
C27_UpdateUnderNewPath ==
    (/\ last.op = "updateTranslation"
     /\ Loaded(last.pre) /\ last.pre.originalData # Null
     /\ LeafUnderNewPath(last.pre, last.keyPath)) =>
        /\ ~last.threw
        /\ StringAt(Obj(data.translations), Append(last.keyPath, last.language)) = last.value
        /\ Tracked(unsavedChanges, last.keyPath, last.language, "", last.value)

\* What such a call does: it raises a TypeError and leaves the state as it was.
C27_UpdateUnderNewPathThrows ==
    (/\ last.op = "updateTranslation"
     /\ Loaded(last.pre) /\ last.pre.originalData # Null
     /\ LeafUnderNewPath(last.pre, last.keyPath)) =>
        /\ last.threw
        /\ State = last.pre

\* Two objects are the same but for what stands at the key path
RECURSIVE SameExcept(_, _, _)
SameExcept(a, b, keys) ==
    /\ Keys(a) = Keys(b)
    /\ \A i \in 1..Len(a) :
          IF a[i].k # Head(keys) THEN a[i].v = b[i].v
          ELSE Len(keys) > 1 =>
                  /\ a[i].v.t = "obj" /\ b[i].v.t = "obj"
                  /\ SameExcept(a[i].v.o, b[i].v.o, Tail(keys))

\* The pending changes for other pairs than (keyPath, language), in their order
OtherChanges(changes, keyPath, language) ==
    SelectSeq(changes, LAMBDA c : ~(c.keyPath = keyPath /\ c.language = language))

\* updateTranslation has set the value at (keyPath, language) and nothing else
UpdatedOnly ==
    LET before == NodeAt(Obj(last.pre.data.translations), last.keyPath)
        after == NodeAt(Obj(data.translations), last.keyPath)
    IN  /\ ~last.threw
        /\ after.t = "obj"
        /\ Get(after.o, last.language) = Str(last.value)
        /\ KeySet(after.o) = KeySet(before.o) \cup {last.language}
        /\ \A k \in KeySet(before.o) \ {last.language} : Get(after.o, k) = Get(before.o, k)
        /\ SameExcept(data.translations, last.pre.data.translations, last.keyPath)
        /\ data.languages = last.pre.data.languages
        /\ data.project = last.pre.data.project
        /\ originalData = last.pre.originalData
        /\ OtherChanges(unsavedChanges, last.keyPath, last.language)
              = OtherChanges(last.pre.unsavedChanges, last.keyPath, last.language)

\* C22: updateTranslation on a path that resolves to a leaf sets the value at
\* (path, language) and leaves every other value and node, the language list,
\* the project name and the snapshot unchanged; unsavedChanges changes only in
\* its entry for (path, language).
C22_UpdateFrame ==
    (/\ last.op = "updateTranslation"
     /\ Loaded(last.pre) /\ last.pre.originalData # Null
     /\ ShapeLeaf(NodeAt(Obj(last.pre.data.translations), last.keyPath))) =>
        UpdatedOnly

\* C22 for the paths whose parent the snapshot has as well.
C22_UpdateFrameKnownPath ==
    (/\ last.op = "updateTranslation"
     /\ Loaded(last.pre) /\ last.pre.originalData # Null
     /\ ShapeLeaf(NodeAt(Obj(last.pre.data.translations), last.keyPath))
     /\ ~LeafUnderNewPath(last.pre, last.keyPath)) =>
        UpdatedOnly

\* A leaf with other pending changes was given a value for a new pair.
C22_Witness ==
    /\ last.op = "updateTranslation"
    /\ Loaded(last.pre) /\ last.pre.originalData # Null
    /\ ShapeLeaf(NodeAt(Obj(last.pre.data.translations), last.keyPath))
    /\ ~last.threw
    /\ last.pre.unsavedChanges # <<>>
    /\ Len(unsavedChanges) > Len(last.pre.unsavedChanges)

\* C28: in every reachable state every pending change of a real language
\* agrees with the catalog: the value at (keyPath, language) is its newValue.
C28_ChangesAgree ==
    Loaded(State) =>
        \A i \in 1..Len(unsavedChanges) :
            LET c == unsavedChanges[i]
            IN  c.language # RenameSentinel =>
                    NodeAt(Obj(data.translations), Append(c.keyPath, c.language)) = c.newValue

\* hasUnsavedChanges: unsavedChanges.length > 0
hasUnsavedChanges == Len(unsavedChanges) > 0

\* No load and no save is in flight
Idle == fetches = 0 /\ saves = <<>>

\* C29: in every reachable state with no load or save in flight, a catalog
\* that differs from the snapshot, in its tree or its language list, has
\* hasUnsavedChanges true.
C29_DifferenceIsPending ==
    (Idle /\ Loaded(State) /\ originalData # Null /\ ~CatalogEq(data, originalData)) =>
        hasUnsavedChanges

\* The pending change is contained in the snapshot
InSnapshot(c) ==
    IF c.language = RenameSentinel
    THEN /\ ~Resolves(originalData, c.keyPath)
         /\ Resolves(originalData, Append(Front(c.keyPath), c.newValue.s))
    ELSE NodeAt(Obj(originalData.translations), Append(c.keyPath, c.language)) = c.newValue

\* C24: when a save resolves, every edit that updateTranslation or renameKey
\* made while it was in flight is contained in the snapshot or still listed in
\* unsavedChanges.
C24_EditDuringSave ==
    (last.op = "saveResolve" /\ ~last.quiet) =>
        \A i \in 1..Len(last.pre.unsavedChanges) :
            LET c == last.pre.unsavedChanges[i]
            IN  (\A j \in 1..Len(last.call.unsavedChanges) : last.call.unsavedChanges[j] # c) =>
                    \/ InSnapshot(c)
                    \/ \E j \in 1..Len(unsavedChanges) : unsavedChanges[j] = c

\* TreeNodeItem: const completeness = node.completeness || 100
completeness(node) ==
    IF node.completeness.num = 0 THEN Rat(100, 1) ELSE node.completeness

\* const isComplete = completeness === 100
isComplete(node) == RatEq(completeness(node), Rat(100, 1))

\* const isMissing = completeness < 100
isMissing(node) == ~RatLeq(Rat(100, 1), completeness(node))

\* C30: the tree view shows a node as complete if and only if the completeness
\* computed by buildTree is exactly 100, and shows every node of completeness
\* below 100 as missing. Stated on every view a step produces.
C30_ShownComplete ==
    (ViewChanged /\ Renders(State)) =>
        LET nodes == DisplayNodes(Tree(State))
        IN  \A i \in 1..Len(nodes) :
                LET n == nodes[i]
                IN  /\ isComplete(n) <=> RatEq(n.completeness, Rat(100, 1))
                    /\ ~RatLeq(Rat(100, 1), n.completeness) => isMissing(n)

\* C30, for the nodes whose completeness is not 0: shown complete exactly at
\* 100 and missing below.
C30_ShownCompleteNonZero ==
    (ViewChanged /\ Renders(State)) =>
        LET nodes == DisplayNodes(Tree(State))
        IN  \A i \in 1..Len(nodes) :
                LET n == nodes[i]
                IN  n.completeness.num # 0 =>
                        /\ isComplete(n) <=> RatEq(n.completeness, Rat(100, 1))
                        /\ isMissing(n) <=> ~RatLeq(Rat(100, 1), n.completeness)

\* The catalog holds the value of the update
Holds(d, u) == NodeAt(Obj(d.translations), Append(u.keyPath, u.language)) = Str(u.value)

\* unsavedChanges has an entry for the update
Records(changes, u) ==
    \E i \in 1..Len(changes) :
        /\ changes[i].keyPath = u.keyPath
        /\ changes[i].language = u.language
        /\ changes[i].newValue = Str(u.value)

\* C23: after the JSON console applied a batch of two or more updates, the
\* catalog holds the new value of every update of the batch or of none, and
\* unsavedChanges records exactly the updates the catalog holds.
C23_BatchAtomic ==
    (last.op = "applyJsonChanges" /\ Len(last.updates) >= 2) =>
        LET us == last.updates
        IN  /\ \/ \A i \in 1..Len(us) : Holds(data, us[i])
               \/ \A i \in 1..Len(us) : ~Holds(data, us[i])
            /\ \A i \in 1..Len(us) : Records(unsavedChanges, us[i]) => Holds(data, us[i])

\* C23, what the batch does when no call throws: the catalog is the rendered
\* one with the last update alone, and every update is recorded that does not
\* restore the snapshot's value.
C23_LastUpdateWins ==
    (last.op = "applyJsonChanges" /\ Len(last.updates) >= 2 /\ ~last.threw) =>
        LET us == last.updates
            u == us[Len(us)]
        IN  /\ data = updateTranslation(last.pre.data, last.pre.originalData, <<>>,
                                        u.keyPath, u.language, u.value).data
            /\ \A i \in 1..Len(us) :
                   \/ Records(unsavedChanges, us[i])
                   \/ SnapshotValue(us[i].keyPath, us[i].language) = us[i].value

====
